---- MODULE Spec2Model ----
(***************************************************************************)
(* A model of s3p_extract.py: the S3P0 archive packer (pack,               *)
(* _copy_file_fast) and extractor (convert, _extract_one), driven by main. *)
(*                                                                         *)
(* Files are sequences of bytes.  TLC's integers cannot hold 0xFFFFFFFF,   *)
(* so the model scales the byte: a byte holds BYTE_RADIX values instead of *)
(* 256, a source byte b is represented by b % BYTE_RADIX, and a 4-byte     *)
(* little-endian field ("<I") holds 0 .. BYTE_RADIX^4 - 1 = U32_MAX, the   *)
(* model's 0xFFFFFFFF.  Struct sizes (8, 8, 32) and every offset are the   *)
(* source's own.                                                           *)
(***************************************************************************)
EXTENDS Integers, Sequences, FiniteSets, TLC

VARIABLES
    infiles,       \* pack's input: the source files' contents, in order
    has_sendfile,  \* hasattr(os, "sendfile") on this platform
    pc,            \* where the program is
    out_f,         \* the archive file pack writes (out_filename)
    entries,       \* pack's list of (offset, length)
    pack_err,      \* the exception pack raised ("none" if none)
    pack_rc,       \* main's return value in pack mode (-1: not returned yet)
    alt_f,         \* a second archive file: a copy of out_f someone edited
    tampers,       \* how many edits alt_f has had
    args,          \* main's args.files in extract mode: paths "out" / "alt"
    fi,            \* index in args of the archive convert is working on
    i,             \* convert's 1-based entry index (enumerate start=1)
    outputs,       \* output files written: <<path, index, bytes>>
    reads,         \* archive byte ranges read so far: <<fi, lo, hi>>, half open
    log,           \* every _extract_one call: [fi, i, offset, length, status]
    err,           \* the exception main caught ("none" if none)
    conv_rc        \* main's return value in extract mode (-1: not returned yet)

vars == <<infiles, has_sendfile, pc, out_f, entries, pack_err, pack_rc, alt_f, tampers,
          args, fi, i, outputs, reads, log, err, conv_rc>>

packVars == <<infiles, has_sendfile, out_f, entries, pack_err, pack_rc>>
convVars == <<args, fi, i, outputs, reads, log, err, conv_rc>>

----------------------------------------------------------------------------
(* Bounds of the model *)

\* values a model byte takes (the source's 256)
BYTE_RADIX == 4
\* input files per pack
MaxFiles == 2
\* length of a small input file
MaxFileLen == 2
\* edits made to the copied archive
MaxTamper == 1

----------------------------------------------------------------------------
(* Format constants and the struct codec *)

Min(a, b) == IF a < b THEN a ELSE b

Byte(b) == b % BYTE_RADIX

U32_MAX == BYTE_RADIX * BYTE_RADIX * BYTE_RADIX * BYTE_RADIX - 1

S3P_MAGIC == <<Byte(83), Byte(51), Byte(80), Byte(48)>>
S3V_MAGIC == <<Byte(83), Byte(51), Byte(86), Byte(48)>>
END_MARKER == 305419896

HEADER_SIZE == 8
ENTRY_SIZE == 8
S3V0_SIZE == 32
FILESTART == 32
CHUNK_SIZE == 4194304

Zeros(n) == [k \in 1..n |-> 0]

\* struct "<I": four bytes, least significant first
PackU32(v) ==
    << v % BYTE_RADIX,
       (v \div BYTE_RADIX) % BYTE_RADIX,
       (v \div (BYTE_RADIX * BYTE_RADIX)) % BYTE_RADIX,
       (v \div (BYTE_RADIX * BYTE_RADIX * BYTE_RADIX)) % BYTE_RADIX >>

\* the "<I" field at 0-based offset off of buffer b
UnpackU32(b, off) ==
    b[off + 1]
    + BYTE_RADIX * b[off + 2]
    + BYTE_RADIX * BYTE_RADIX * b[off + 3]
    + BYTE_RADIX * BYTE_RADIX * BYTE_RADIX * b[off + 4]

\* Python's b[lo:hi] for 0 <= lo: clamped to the buffer
Slice(b, lo, hi) == SubSeq(b, Min(lo, Len(b)) + 1, Min(hi, Len(b)))

HEADER_STRUCT_pack(magic, count) == magic \o PackU32(count)
ENTRY_STRUCT_pack(off, ln) == PackU32(off) \o PackU32(ln)
S3V0_STRUCT_pack(magic, filestart, payload_len, unknown) ==
    magic \o PackU32(filestart) \o PackU32(payload_len) \o unknown

\* a raw file write of data at position pos <= Len(f): overwrites, then extends
WriteAt(f, pos, data) ==
    SubSeq(f, 1, pos) \o data \o SubSeq(f, pos + Len(data) + 1, Len(f))

----------------------------------------------------------------------------
(* _copy_file_fast *)

\* What the os.sendfile loop can do for a source of at least size bytes:
\* send everything ("done"), or stop after sent < size bytes because a call
\* returned 0 ("zero") or raised OSError ("oserror").
SendfileOutcomes(size) ==
    {[kind |-> "done", sent |-> size]}
    \cup {[kind |-> k, sent |-> n] : k \in {"zero", "oserror"}, n \in 0..(size - 1)}

\* the os.read / os.write loop, reading src from position pos
RECURSIVE ReadWriteLoop(_, _, _)
ReadWriteLoop(src, pos, remaining) ==
    IF remaining = 0 THEN <<>>
    ELSE LET data == Slice(src, pos, pos + Min(CHUNK_SIZE, remaining))
         IN  IF data = <<>> THEN <<>>
             ELSE data \o ReadWriteLoop(src, pos + Len(data), remaining - Len(data))

\* where the source's file position is left when the fast path gives up
FallbackSeek(sf) == IF sf.kind = "zero" THEN sf.sent ELSE 0

\* the bytes _copy_file_fast appends to the destination
CopyFileFast(src, size, sendfile, sf) ==
    IF size <= 0 THEN <<>>
    ELSE IF sendfile
         THEN IF sf.kind = "done"
              THEN SubSeq(src, 1, sf.sent)
              ELSE SubSeq(src, 1, sf.sent)
                   \o ReadWriteLoop(src, FallbackSeek(sf), size)
         ELSE ReadWriteLoop(src, 0, size)

----------------------------------------------------------------------------
(* pack *)

RECURSIVE Table(_)
Table(es) ==
    IF es = <<>> THEN <<>>
    ELSE ENTRY_STRUCT_pack(es[1][1], es[1][2]) \o Table(Tail(es))

FileTooLarge(src_size) == src_size > U32_MAX

\* a variant of LimitsExceeded that forgets the offset
LimitsExceededLengthOnly(offset, length) == length > U32_MAX

LimitsExceeded(offset, length) == offset > U32_MAX \/ length > U32_MAX

\* lines 53-57: open "wb", header, zero-filled entry table
PackOpen ==
    /\ pc = "pack"
    /\ out_f' = HEADER_STRUCT_pack(S3P_MAGIC, Len(infiles))
                \o Zeros(ENTRY_SIZE * Len(infiles))
    /\ entries' = <<>>
    /\ pc' = "pack_loop"
    /\ UNCHANGED <<infiles, has_sendfile, pack_err, pack_rc, alt_f, tampers>>
    /\ UNCHANGED convVars

\* lines 59-75: one iteration of the loop over infiles
PackEntry ==
    /\ pc = "pack_loop"
    /\ Len(entries) < Len(infiles)
    /\ LET src == infiles[Len(entries) + 1]
           src_size == Len(src)
       IN  IF FileTooLarge(src_size)
           THEN /\ pack_err' = "file_too_large"
                /\ pack_rc' = 1
                /\ pc' = "packed"
                /\ UNCHANGED <<out_f, entries>>
           ELSE \E sf \in SendfileOutcomes(src_size) :
                LET offset == Len(out_f)
                    written == out_f
                        \o S3V0_STRUCT_pack(S3V_MAGIC, FILESTART, src_size, Zeros(20))
                        \o CopyFileFast(src, src_size, has_sendfile, sf)
                    end_pos == Len(written)
                    length == end_pos - offset
                IN  /\ out_f' = written
                    /\ IF LimitsExceeded(offset, length)
                       THEN /\ pack_err' = "limits"
                            /\ pack_rc' = 1
                            /\ pc' = "packed"
                            /\ UNCHANGED entries
                       ELSE /\ entries' = Append(entries, <<offset, length>>)
                            /\ UNCHANGED <<pack_err, pack_rc, pc>>
    /\ UNCHANGED <<infiles, has_sendfile, alt_f, tampers>>
    /\ UNCHANGED convVars

\* lines 77-83: end marker, seek back, the real entry table; main returns 0
PackFinish ==
    /\ pc = "pack_loop"
    /\ Len(entries) = Len(infiles)
    /\ out_f' = WriteAt(out_f \o PackU32(END_MARKER), HEADER_SIZE, Table(entries))
    /\ pack_rc' = 0
    /\ pc' = "packed"
    /\ UNCHANGED <<infiles, has_sendfile, entries, pack_err, alt_f, tampers>>
    /\ UNCHANGED convVars

----------------------------------------------------------------------------
(* The archive files on disk, and edits to the copy *)

Disk(path) == IF path = "out" THEN out_f ELSE alt_f

\* someone copies the archive pack left behind
CopyOut ==
    /\ pc = "packed"
    /\ alt_f' = out_f
    /\ pc' = "tamper"
    /\ UNCHANGED tampers
    /\ UNCHANGED packVars
    /\ UNCHANGED convVars

\* 0-based positions of the archive's 4-byte fields: header, entry table,
\* and the three leading fields of every record pack wrote
FieldPositions ==
    {0, 4}
    \cup {HEADER_SIZE + 4 * j : j \in 0..(2 * Len(infiles) - 1)}
    \cup {entries[k][1] + d : k \in 1..Len(entries), d \in {0, 4, 8}}

FieldValues ==
    {0, 1, 2, S3V0_SIZE - 1, S3V0_SIZE, S3V0_SIZE + 1, U32_MAX,
     HEADER_SIZE + ENTRY_SIZE, Len(alt_f) - S3V0_SIZE,
     UnpackU32(S3P_MAGIC, 0), UnpackU32(S3V_MAGIC, 0)}

\* the copy gets one field overwritten
Poke ==
    /\ pc = "tamper"
    /\ tampers < MaxTamper
    /\ \E p \in FieldPositions, v \in FieldValues :
        /\ p + 4 <= Len(alt_f)
        /\ v \in 0..U32_MAX
        /\ alt_f' = WriteAt(alt_f, p, PackU32(v))
    /\ tampers' = tampers + 1
    /\ UNCHANGED pc
    /\ UNCHANGED packVars
    /\ UNCHANGED convVars

TruncateLengths ==
    (0..(HEADER_SIZE + ENTRY_SIZE)) \cup {Len(alt_f) - k : k \in 1..5}

\* the copy is cut short
Truncate ==
    /\ pc = "tamper"
    /\ tampers < MaxTamper
    /\ \E n \in TruncateLengths :
        /\ 0 <= n /\ n < Len(alt_f)
        /\ alt_f' = SubSeq(alt_f, 1, n)
    /\ tampers' = tampers + 1
    /\ UNCHANGED pc
    /\ UNCHANGED packVars
    /\ UNCHANGED convVars

----------------------------------------------------------------------------
(* _extract_one *)

\* a variant of OutOfBounds that forgets the end of the archive
OutOfBoundsNoEnd(mm, offset, length) == offset < 0 \/ length < S3V0_SIZE

OutOfBounds(mm, offset, length) ==
    offset < 0 \/ length < S3V0_SIZE \/ offset + length > Len(mm)

\* a variant of DataStart that assumes the 32-byte header
DataStartConst(offset, filestart) == offset + S3V0_SIZE

DataStart(offset, filestart) == offset + filestart

\* a variant of BadRecordMagic that accepts any tag
BadRecordMagicNever(magic) == FALSE

BadRecordMagic(magic) == magic # S3V_MAGIC

DataEnd(offset, length) == offset + length

InvalidFilestart(data_start, data_end) == data_start > data_end

\* The outcome of _extract_one(mm, offset, length, out_file): its status, the
\* archive ranges it asks for, and the bytes it writes to out_file when "ok".
\* S3V0_STRUCT.unpack_from raises struct.error on a buffer that is too short.
ExtractOne(mm, offset, length) ==
    IF OutOfBounds(mm, offset, length)
    THEN [status |-> "out_of_bounds", ranges |-> {}, data |-> <<>>]
    ELSE IF offset + S3V0_SIZE > Len(mm)
    THEN [status |-> "struct_error", ranges |-> {}, data |-> <<>>]
    ELSE LET magic == SubSeq(mm, offset + 1, offset + 4)
             filestart == UnpackU32(mm, offset + 4)
             hdr == {<<offset, offset + S3V0_SIZE>>}
             data_start == DataStart(offset, filestart)
             data_end == DataEnd(offset, length)
         IN  IF BadRecordMagic(magic)
             THEN [status |-> "bad_magic_s3v",
                   ranges |-> hdr \cup {<<offset, offset + 4>>}, data |-> <<>>]
             ELSE IF InvalidFilestart(data_start, data_end)
             THEN [status |-> "invalid_filestart", ranges |-> hdr, data |-> <<>>]
             ELSE [status |-> "ok",
                   ranges |-> hdr \cup {<<data_start, data_end>>},
                   data |-> Slice(mm, data_start, data_end)]

----------------------------------------------------------------------------
(* convert and main *)

Mm == Disk(args[fi])

FileTooSmall(file_size) == file_size < HEADER_SIZE

EntriesCount(mm) == UnpackU32(mm, 4)

EntriesTableEnd(mm) == HEADER_SIZE + EntriesCount(mm) * ENTRY_SIZE

\* a variant of TableExceedsFile that is off by one
TableExceedsFileOffByOne(mm) == EntriesTableEnd(mm) >= Len(mm)

TableExceedsFile(mm) == EntriesTableEnd(mm) > Len(mm)

\* entries_region = mm[HEADER_STRUCT.size:entries_table_end]
EntriesRegion(mm) == Slice(mm, HEADER_SIZE, EntriesTableEnd(mm))

\* how many records ENTRY_STRUCT.iter_unpack yields
NumEntries(mm) == Len(EntriesRegion(mm)) \div ENTRY_SIZE

\* the k-th (1-based) record iter_unpack yields
EntryAt(mm, k) ==
    << UnpackU32(EntriesRegion(mm), (k - 1) * ENTRY_SIZE),
       UnpackU32(EntriesRegion(mm), (k - 1) * ENTRY_SIZE + 4) >>

\* main's except clause: print the error, return 1
Raise(e) ==
    /\ err' = e
    /\ conv_rc' = 1
    /\ pc' = "exit"

\* main in extract mode with the archive pack left
MainExtractOut ==
    /\ pc = "packed"
    /\ args' = <<"out">>
    /\ fi' = 1
    /\ pc' = "convert"
    /\ UNCHANGED <<i, outputs, reads, log, err, conv_rc, alt_f, tampers>>
    /\ UNCHANGED packVars

ArgLists == {<<"alt">>, <<"out", "alt">>, <<"alt", "out">>, <<"alt", "alt">>}

\* main in extract mode with the edited copy among its arguments
MainExtractAlt ==
    /\ pc = "tamper"
    /\ args' \in ArgLists
    /\ fi' = 1
    /\ pc' = "convert"
    /\ UNCHANGED <<i, outputs, reads, log, err, conv_rc, alt_f, tampers>>
    /\ UNCHANGED packVars

\* lines 105-125: convert up to the loop over the entry table
ConvertOpen ==
    /\ pc = "convert"
    /\ IF FileTooSmall(Len(Mm))
       THEN /\ Raise("too_small")
            /\ UNCHANGED <<i, reads>>
       ELSE IF SubSeq(Mm, 1, 4) # S3P_MAGIC
       THEN /\ Raise("bad_magic_s3p")
            /\ reads' = reads \cup {<<fi, 0, HEADER_SIZE>>}
            /\ UNCHANGED i
       ELSE IF TableExceedsFile(Mm)
       THEN /\ Raise("table_exceeds_file")
            /\ reads' = reads \cup {<<fi, 0, HEADER_SIZE>>}
            /\ UNCHANGED i
       ELSE IF Len(EntriesRegion(Mm)) % ENTRY_SIZE # 0
       THEN /\ Raise("struct_error")
            /\ reads' = reads \cup {<<fi, 0, HEADER_SIZE>>,
                                    <<fi, HEADER_SIZE, EntriesTableEnd(Mm)>>}
            /\ UNCHANGED i
       ELSE /\ reads' = reads \cup {<<fi, 0, HEADER_SIZE>>,
                                    <<fi, HEADER_SIZE, EntriesTableEnd(Mm)>>}
            /\ i' = 1
            /\ pc' = "convert_loop"
            /\ UNCHANGED <<err, conv_rc>>
    /\ UNCHANGED <<args, fi, outputs, log, alt_f, tampers>>
    /\ UNCHANGED packVars

\* a variant of ExtractEntry that skips a bad entry and goes on
ExtractEntrySkip ==
    /\ pc = "convert_loop"
    /\ i <= NumEntries(Mm)
    /\ LET e == EntryAt(Mm, i)
           r == ExtractOne(Mm, e[1], e[2])
       IN  /\ log' = Append(log, [fi |-> fi, i |-> i, offset |-> e[1],
                                  length |-> e[2], status |-> r.status])
           /\ reads' = reads \cup {<<fi, g[1], g[2]>> : g \in r.ranges}
           /\ outputs' = IF r.status = "ok"
                         THEN {o \in outputs : ~(o[1] = args[fi] /\ o[2] = i)}
                              \cup {<<args[fi], i, r.data>>}
                         ELSE outputs
           /\ err' = IF r.status = "ok" THEN err ELSE r.status
           /\ i' = i + 1
           /\ UNCHANGED <<pc, conv_rc>>
    /\ UNCHANGED <<args, fi, alt_f, tampers>>
    /\ UNCHANGED packVars

\* lines 127-130: one iteration, with its call of _extract_one
ExtractEntry ==
    /\ pc = "convert_loop"
    /\ i <= NumEntries(Mm)
    /\ LET e == EntryAt(Mm, i)
           r == ExtractOne(Mm, e[1], e[2])
       IN  /\ log' = Append(log, [fi |-> fi, i |-> i, offset |-> e[1],
                                  length |-> e[2], status |-> r.status])
           /\ reads' = reads \cup {<<fi, g[1], g[2]>> : g \in r.ranges}
           /\ IF r.status = "ok"
              THEN /\ outputs' = {o \in outputs : ~(o[1] = args[fi] /\ o[2] = i)}
                                 \cup {<<args[fi], i, r.data>>}
                   /\ i' = i + 1
                   /\ UNCHANGED <<pc, err, conv_rc>>
              ELSE /\ Raise(r.status)
                   /\ UNCHANGED <<i, outputs>>
    /\ UNCHANGED <<args, fi, alt_f, tampers>>
    /\ UNCHANGED packVars

\* the loop is exhausted: convert returns; main goes on to the next archive
\* or returns 0
ConvertReturn ==
    /\ pc = "convert_loop"
    /\ i > NumEntries(Mm)
    /\ IF fi < Len(args)
       THEN /\ fi' = fi + 1
            /\ pc' = "convert"
            /\ UNCHANGED conv_rc
       ELSE /\ conv_rc' = 0
            /\ pc' = "exit"
            /\ UNCHANGED fi
    /\ UNCHANGED <<args, i, outputs, reads, log, err, alt_f, tampers>>
    /\ UNCHANGED packVars

----------------------------------------------------------------------------
(* Inputs and specifications *)

Pattern(n, s) == [k \in 1..n |-> (k + s) % BYTE_RADIX]

SmallFiles == {Pattern(n, s) : n \in 0..MaxFileLen, s \in 0..1}

SeqsUpTo(S, n) == UNION {[1..m -> S] : m \in 0..n}

\* lists that bring pack to its 32-bit limits
BigLists ==
    { <<Pattern(U32_MAX + 1, 0)>>,
      <<Pattern(U32_MAX - S3V0_SIZE + 1, 0)>>,
      <<Pattern(U32_MAX - S3V0_SIZE, 0)>>,
      <<Pattern(U32_MAX - S3V0_SIZE - ENTRY_SIZE, 0), Pattern(1, 0)>>,
      <<Pattern(1, 1), Pattern(U32_MAX + 1, 0)>> }

InputLists == SeqsUpTo(SmallFiles, MaxFiles) \cup BigLists

AdvLists ==
    { <<>>, <<Pattern(2, 0)>>, <<Pattern(1, 1), Pattern(2, 0)>>,
      <<Pattern(U32_MAX + 1, 0)>> }

InitRest ==
    /\ pc = "pack"
    /\ out_f = <<>>
    /\ entries = <<>>
    /\ pack_err = "none"
    /\ pack_rc = -1
    /\ alt_f = <<>>
    /\ tampers = 0
    /\ args = <<>>
    /\ fi = 0
    /\ i = 0
    /\ outputs = {}
    /\ reads = {}
    /\ log = <<>>
    /\ err = "none"
    /\ conv_rc = -1

\* pack, then extract what pack left
Init ==
    /\ infiles \in InputLists
    /\ has_sendfile \in BOOLEAN
    /\ InitRest

Pack == PackOpen \/ PackEntry \/ PackFinish

Convert == ConvertOpen \/ ExtractEntry \/ ConvertReturn

Next == Pack \/ MainExtractOut \/ Convert

Spec == Init /\ [][Next]_vars

\* pack, then extract an edited copy of what pack left
InitAdv ==
    /\ infiles \in AdvLists
    /\ has_sendfile = FALSE
    /\ InitRest

NextAdv == Pack \/ CopyOut \/ Poke \/ Truncate \/ MainExtractAlt \/ Convert

SpecAdv == InitAdv /\ [][NextAdv]_vars

----------------------------------------------------------------------------
(* Vocabulary of the properties *)

\* the size pack's layout gives the first k records of the input list
RECURSIVE RecordsSize(_)
RecordsSize(k) ==
    IF k = 0 THEN 0 ELSE RecordsSize(k - 1) + S3V0_SIZE + Len(infiles[k])

\* where the layout puts record k
LayoutOffset(k) == HEADER_SIZE + ENTRY_SIZE * Len(infiles) + RecordsSize(k - 1)

PackReturned == pc \notin {"pack", "pack_loop"}

SizeLimitError == pack_err \in {"file_too_large", "limits"}

\* the archive a log line is about
ArchiveOf(l) == Disk(args[l.fi])

InBounds(l) ==
    l.length >= S3V0_SIZE /\ l.offset + l.length <= Len(ArchiveOf(l))

RecordMagic(l) == SubSeq(ArchiveOf(l), l.offset + 1, l.offset + 4)

\* the record's stored header_size and payload_length fields
StoredHeaderSize(l) == UnpackU32(ArchiveOf(l), l.offset + 4)
StoredPayloadLength(l) == UnpackU32(ArchiveOf(l), l.offset + 8)

LogLines == {log[n] : n \in 1..Len(log)}

OutputsOf(path) == {o \in outputs : o[1] = path}

HasOutput(path, k) == \E o \in outputs : o[1] = path /\ o[2] = k

\* a correct header with entry_count = 0, with or without trailing bytes
IsEmptyArchive(a) ==
    /\ Len(a) >= HEADER_SIZE
    /\ SubSeq(a, 1, 4) = S3P_MAGIC
    /\ UnpackU32(a, 4) = 0

----------------------------------------------------------------------------
(* Claims *)

\* C1: round trip. For N >= 1 input files whose layout fits the 32-bit
\* fields, pack and then convert both succeed and the output files are
\* exactly the input files, in order.
C1_RoundTrip ==
    (/\ pc = "exit"
     /\ Len(infiles) >= 1
     /\ \A k \in 1..Len(infiles) :
            /\ Len(infiles[k]) <= U32_MAX - S3V0_SIZE
            /\ LayoutOffset(k) <= U32_MAX)
    => /\ pack_rc = 0
       /\ conv_rc = 0
       /\ outputs = {<<"out", k, infiles[k]>> : k \in 1..Len(infiles)}

\* C10: exact-once bulk copy. Every record pack has accounted for holds the
\* source bytes once and in order after its 32-byte header, and its recorded
\* length is 32 + size, whatever the sendfile fast path did.
C10_ExactOnceCopy ==
    \A k \in 1..Len(entries) :
        /\ entries[k][2] = S3V0_SIZE + Len(infiles[k])
        /\ Slice(out_f, entries[k][1] + S3V0_SIZE, entries[k][1] + entries[k][2])
           = infiles[k]

\* C8: pack layout. After a successful pack the archive has the size the
\* layout gives it, the header is S3P0 and N, the table holds the layout's
\* offsets and lengths 32 + s_i in input order, every record starts with
\* S3V0, 32, s_i and 20 zero bytes, and the end marker is the last 4 bytes.
C8_PackLayout ==
    pack_rc = 0 =>
        LET n == Len(infiles)
        IN  /\ Len(out_f) = HEADER_SIZE + ENTRY_SIZE * n + RecordsSize(n) + 4
            /\ SubSeq(out_f, 1, HEADER_SIZE) = S3P_MAGIC \o PackU32(n)
            /\ \A k \in 1..n :
                /\ UnpackU32(out_f, HEADER_SIZE + ENTRY_SIZE * (k - 1))
                   = LayoutOffset(k)
                /\ UnpackU32(out_f, HEADER_SIZE + ENTRY_SIZE * (k - 1) + 4)
                   = S3V0_SIZE + Len(infiles[k])
                /\ Slice(out_f, LayoutOffset(k), LayoutOffset(k) + S3V0_SIZE)
                   = S3V_MAGIC \o PackU32(S3V0_SIZE)
                     \o PackU32(Len(infiles[k])) \o Zeros(20)
            /\ Slice(out_f, Len(out_f) - 4, Len(out_f)) = PackU32(END_MARKER)

\* C4: size-limit enforcement. A source file larger than U32_MAX stops pack
\* with the size-limit error before any byte of its record is written; no
\* offset or length above U32_MAX is ever recorded, so the table pack writes
\* reads back as the recorded values; and after a size-limit failure the
\* entry table is still all zero and convert on the file fails.
C4_SizeLimit ==
    /\ (PackReturned /\ Len(entries) < Len(infiles)
        /\ Len(infiles[Len(entries) + 1]) > U32_MAX)
       => /\ pack_err = "file_too_large"
          /\ pack_rc = 1
          /\ Len(out_f) = IF entries = <<>>
                          THEN HEADER_SIZE + ENTRY_SIZE * Len(infiles)
                          ELSE entries[Len(entries)][1] + entries[Len(entries)][2]
    /\ \A k \in 1..Len(entries) :
        entries[k][1] <= U32_MAX /\ entries[k][2] <= U32_MAX
    /\ pack_rc = 0 =>
        /\ Len(entries) = Len(infiles)
        /\ \A k \in 1..Len(entries) : EntryAt(out_f, k) = entries[k]
    /\ (PackReturned /\ pack_rc # 0) => SizeLimitError
    /\ SizeLimitError =>
        /\ pack_rc = 1
        /\ Slice(out_f, HEADER_SIZE, HEADER_SIZE + ENTRY_SIZE * Len(infiles))
           = Zeros(ENTRY_SIZE * Len(infiles))
        /\ (pc = "exit" /\ args = <<"out">>) => (conv_rc = 1 /\ outputs = {})

C4_Witness ==
    /\ pc = "exit"
    /\ pack_err = "limits"
    /\ Len(entries) = 1
    /\ entries[1][1] + entries[1][2] > U32_MAX
    /\ conv_rc = 1

\* C2: bounds rejection. Whatever the archive holds, an entry whose
\* offset + length exceeds the archive size is refused with the
\* out-of-bounds error, and every range convert and _extract_one ask the
\* archive for lies inside [0, archive size].
C2_BoundsRejection ==
    /\ \A l \in LogLines :
        l.offset + l.length > Len(ArchiveOf(l)) => l.status = "out_of_bounds"
    /\ \A r \in reads :
        0 <= r[2] /\ r[2] <= r[3] /\ r[3] <= Len(Disk(args[r[1]]))

C2_Witness ==
    \E l \in LogLines :
        /\ l.length >= S3V0_SIZE
        /\ l.offset < Len(ArchiveOf(l))
        /\ l.offset + l.length > Len(ArchiveOf(l))
        /\ l.status = "out_of_bounds"

\* C3: magic rejection. An archive of at least 8 bytes whose first 4 bytes
\* are not S3P0 fails with the bad-magic error and gets no output file; an
\* in-bounds record whose first 4 bytes are not S3V0 fails with the
\* bad-magic error and gets no output file; and every output file holds the
\* payload range of an entry that passed validation.
C3_MagicRejection ==
    /\ (pc \in {"convert_loop", "exit"}
        /\ Len(Mm) >= HEADER_SIZE /\ SubSeq(Mm, 1, 4) # S3P_MAGIC)
       => /\ pc = "exit" /\ err = "bad_magic_s3p" /\ conv_rc = 1
          /\ OutputsOf(args[fi]) = {}
    /\ \A l \in LogLines :
        (InBounds(l) /\ RecordMagic(l) # S3V_MAGIC)
        => /\ l.status = "bad_magic_s3v"
           /\ err = "bad_magic_s3v" /\ conv_rc = 1
           /\ ~HasOutput(args[l.fi], l.i)
    /\ \A o \in outputs :
        \E l \in LogLines :
            /\ args[l.fi] = o[1] /\ l.i = o[2]
            /\ l.status = "ok"
            /\ InBounds(l)
            /\ SubSeq(ArchiveOf(l), 1, 4) = S3P_MAGIC
            /\ RecordMagic(l) = S3V_MAGIC
            /\ o[3] = Slice(ArchiveOf(l), l.offset + StoredHeaderSize(l),
                            l.offset + l.length)

C3_Witness ==
    /\ pc = "exit"
    /\ \E l \in LogLines :
        /\ l.i = 2
        /\ InBounds(l)
        /\ RecordMagic(l) # S3V_MAGIC
        /\ l.status = "bad_magic_s3v"

\* C5: abort on the first bad entry. When entry k fails, convert stops
\* there: the archive's outputs are exactly entries 1..k-1 with their payload
\* bytes, nothing is written for k or later, and main returns 1; main
\* returns 0 only when every archive was processed to its last entry
\* without an error.
C5_AbortOnFirstBadEntry ==
    /\ (pc = "exit" /\ err \in {"out_of_bounds", "bad_magic_s3v", "invalid_filestart"})
       => /\ conv_rc = 1
          /\ log[Len(log)].fi = fi /\ log[Len(log)].i = i
          /\ log[Len(log)].status = err
          /\ \A o \in OutputsOf(args[fi]) : o[2] < i
          /\ \A k \in 1..(i - 1) :
                \E l \in LogLines :
                    /\ l.fi = fi /\ l.i = k /\ l.status = "ok"
                    /\ <<args[fi], k, Slice(Mm, l.offset + StoredHeaderSize(l),
                                            l.offset + l.length)>> \in outputs
    /\ (pc = "exit" /\ err # "none") => conv_rc = 1
    /\ conv_rc = 0 =>
        /\ pc = "exit" /\ err = "none"
        /\ \A l \in LogLines : l.status = "ok"
        /\ \A f \in 1..Len(args) :
            /\ ~FileTooSmall(Len(Disk(args[f])))
            /\ ~TableExceedsFile(Disk(args[f]))
            /\ \A k \in 1..EntriesCount(Disk(args[f])) : HasOutput(args[f], k)
    /\ pack_rc = 0 => pack_err = "none"

C5_Witness ==
    /\ pc = "exit"
    /\ conv_rc = 1
    /\ err \in {"out_of_bounds", "bad_magic_s3v", "invalid_filestart"}
    /\ i = 1
    /\ NumEntries(Mm) = 2
    /\ ExtractOne(Mm, EntryAt(Mm, 1)[1], EntryAt(Mm, 1)[2]).status # "ok"
    /\ ExtractOne(Mm, EntryAt(Mm, 2)[1], EntryAt(Mm, 2)[2]).status = "ok"
    /\ OutputsOf(args[fi]) = {}

\* C6: record-header invariant. Every record the extractor accepts and
\* writes out has a stored header_size >= 32 and a table length >= 32.
C6_RecordHeaderInvariant ==
    \A l \in LogLines :
        l.status = "ok" => (l.length >= S3V0_SIZE /\ StoredHeaderSize(l) >= S3V0_SIZE)

\* C7: empty archive. An archive with a correct header and entry_count = 0,
\* with or without trailing bytes, is converted without error and gets no
\* output file.
C7_EmptyArchive ==
    /\ \A f \in 1..fi :
        (pc \in {"convert_loop", "exit"} /\ IsEmptyArchive(Disk(args[f])))
        => /\ OutputsOf(args[f]) = {}
           /\ (f = fi => err = "none")
    /\ (pc = "exit" /\ \A f \in 1..Len(args) : IsEmptyArchive(Disk(args[f])))
       => (conv_rc = 0 /\ outputs = {} /\ log = <<>>)

C7_Witness ==
    /\ pc = "exit"
    /\ args = <<"alt">>
    /\ IsEmptyArchive(alt_f)
    /\ Len(alt_f) = HEADER_SIZE
    /\ conv_rc = 0

\* C9: payload slicing uses stored fields only. An entry is accepted exactly
\* when it is in bounds, its magic is S3V0 and its stored header_size does
\* not exceed the table's length (payload_length plays no part); an accepted
\* entry's output is archive[offset + header_size, offset + length); a stored
\* header_size beyond the length is refused as an invalid layout.
C9_PayloadSlicing ==
    \A l \in LogLines :
        /\ l.status = "ok" <=>
            (/\ InBounds(l)
             /\ RecordMagic(l) = S3V_MAGIC
             /\ StoredHeaderSize(l) <= l.length)
        /\ l.status = "ok" =>
            <<args[l.fi], l.i,
              SubSeq(ArchiveOf(l), l.offset + StoredHeaderSize(l) + 1,
                     l.offset + l.length)>> \in outputs
        /\ (InBounds(l) /\ RecordMagic(l) = S3V_MAGIC
            /\ StoredHeaderSize(l) > l.length)
           => l.status = "invalid_filestart"

C9_Witness ==
    \E l \in LogLines :
        /\ l.status = "ok"
        /\ StoredHeaderSize(l) # S3V0_SIZE
        /\ StoredPayloadLength(l) # l.length - StoredHeaderSize(l)
        /\ l.length > StoredHeaderSize(l)

====
